---- MODULE Spec2Model ----
(***************************************************************************)
(* Model of app.py, the Excel Deliverability Explorer: the generic filter  *)
(* builder (build_where and the assembly of sql_preview), the preset       *)
(* queries, the role-to-column mapping (pick_col) and run_and_show.        *)
(*                                                                         *)
(* Text is a sequence of strings.  The pieces the script writes itself     *)
(* (keywords, casts, punctuation) are single elements; whatever the user   *)
(* typed is spliced in one character per element, exactly as an f-string   *)
(* splices it, so a quote or a comma typed by the user is the same element *)
(* as a quote or a comma written by the script.                            *)
(***************************************************************************)
EXTENDS Integers, Sequences, FiniteSets, Bags, TLC

VARIABLES sheet, cols, rows, role_col, filters, group_by, metric, limit,
          where_clause, sql_preview, executed, screen, pc

vars == <<sheet, cols, rows, role_col, filters, group_by, metric, limit,
          where_clause, sql_preview, executed, screen, pc>>

(***************************************************************************)
(* Bounds of the model.                                                    *)
(***************************************************************************)
MaxValLen == 3

\* The characters a typed value is made of: a digit, the decimal point, the
\* exponent letter, a sign, the blank, a letter, the comma and the quote.
Chars == {"1", ".", "e", "-", " ", "a", ",", "'"}

RECURSIVE StringsUpTo(_, _)
StringsUpTo(alphabet, n) ==
    IF n = 0 THEN {<<>>}
    ELSE LET shorter == StringsUpTo(alphabet, n - 1)
         IN  shorter \cup {Append(s, c) : s \in shorter, c \in alphabet}

Values == StringsUpTo(Chars, MaxValLen)

(***************************************************************************)
(* Python's str methods and float(), as build_where uses them.             *)
(***************************************************************************)
Whitespace == {" ", "\t", "\n", "\r"}
Digits == {"0", "1", "2", "3", "4", "5", "6", "7", "8", "9"}

Range(s) == {s[i] : i \in DOMAIN s}

\* s[a..b] as a sequence re-indexed from 1 (empty when a > b).
Slice(s, a, b) == [i \in 1..(b - a + 1) |-> s[a + i - 1]]

\* str.strip(): drop the leading and the trailing whitespace.
strip(s) ==
    LET keep == {i \in DOMAIN s : s[i] \notin Whitespace}
    IN  IF keep = {} THEN <<>>
        ELSE Slice(s, CHOOSE i \in keep : \A j \in keep : i <= j,
                      CHOOSE i \in keep : \A j \in keep : i >= j)

\* str.split(","): the pieces between the commas, empty pieces included.
RECURSIVE split(_)
split(s) ==
    LET commas == {i \in DOMAIN s : s[i] = ","}
    IN  IF commas = {} THEN <<s>>
        ELSE LET k == CHOOSE i \in commas : \A j \in commas : i <= j
             IN  <<Slice(s, 1, k - 1)>> \o split(Slice(s, k + 1, Len(s)))

\* sep.join(parts)
RECURSIVE join(_, _)
join(sep, parts) ==
    IF parts = <<>> THEN <<>>
    ELSE IF Len(parts) = 1 THEN parts[1]
    ELSE parts[1] \o sep \o join(sep, Tail(parts))

\* A run of digits in which single underscores may separate digits.
DigitRun(s) ==
    /\ s # <<>>
    /\ s[1] \in Digits
    /\ s[Len(s)] \in Digits
    /\ \A i \in DOMAIN s : s[i] \in Digits \cup {"_"}
    /\ \A i \in 1..(Len(s) - 1) : ~(s[i] = "_" /\ s[i + 1] = "_")

Lower(c) ==
    CASE c = "A" -> "a" [] c = "F" -> "f" [] c = "I" -> "i" [] c = "N" -> "n"
      [] c = "T" -> "t" [] c = "Y" -> "y" [] c = "E" -> "e" [] OTHER -> c

SpecialFloats == { <<"n", "a", "n">>, <<"i", "n", "f">>,
                   <<"i", "n", "f", "i", "n", "i", "t", "y">> }

\* digits [. digits] | . digits, then an optional exponent e [sign] digits
DecimalFloat(b) ==
    LET es   == {i \in DOMAIN b : Lower(b[i]) = "e"}
        epos == IF es = {} THEN Len(b) + 1
                ELSE CHOOSE i \in es : \A j \in es : i <= j
        mant == Slice(b, 1, epos - 1)
        expo == Slice(b, epos + 1, Len(b))
        edig == IF expo # <<>> /\ expo[1] \in {"+", "-"} THEN Tail(expo) ELSE expo
        ds   == {i \in DOMAIN mant : mant[i] = "."}
        dpos == IF ds = {} THEN Len(mant) + 1
                ELSE CHOOSE i \in ds : \A j \in ds : i <= j
        ipart == Slice(mant, 1, dpos - 1)
        fpart == Slice(mant, dpos + 1, Len(mant))
    IN  /\ es # {} => DigitRun(edig)
        /\ IF ds = {} THEN DigitRun(mant)
           ELSE /\ ipart = <<>> \/ DigitRun(ipart)
                /\ fpart = <<>> \/ DigitRun(fpart)
                /\ ~(ipart = <<>> /\ fpart = <<>>)

\* Whether float(val) returns (TRUE) or raises ValueError (FALSE).
float_ok(val) ==
    LET s == strip(val)
        b == IF s # <<>> /\ s[1] \in {"+", "-"} THEN Tail(s) ELSE s
    IN  \/ [i \in DOMAIN b |-> Lower(b[i])] \in SpecialFloats
        \/ DecimalFloat(b)

(***************************************************************************)
(* The generic filter builder.                                             *)
(***************************************************************************)
operators == <<"=", "!=", ">", ">=", "<", "<=", "contains", "starts_with",
               "ends_with", "in (comma separated)">>

CompareOps == {"=", "!=", ">", ">=", "<", "<="}

\* A filter triple is <<col, op, val>>.
Triple(c, o, v) == [col |-> c, op |-> o, val |-> v]

\* f'"{col}"'
col_sql(c) == <<"\"", c, "\"">>

\* Mutant of skipped: only the empty value is skipped, blanks are compiled.
skipped_empty_only(val) == val = <<>>

\* if not val or str(val).strip() == "": continue
skipped(val) == val = <<>> \/ strip(val) = <<>>

\* Mutant of compare_part: no numeric attempt, every value is compared as text.
compare_part_text_only(c, op, val) ==
    <<"CAST(">> \o col_sql(c) \o <<" AS VARCHAR) ", op, " ", "'">> \o val \o <<"'">>

\* The try/except around float(val): numeric comparison, else string.
compare_part(c, op, val) ==
    IF float_ok(val)
    THEN <<"CAST(">> \o col_sql(c) \o <<" AS DOUBLE) ", op, " ">> \o val
    ELSE <<"CAST(">> \o col_sql(c) \o <<" AS VARCHAR) ", op, " ", "'">>
             \o val \o <<"'">>

\* Mutant of items_of: empty items are dropped but the kept ones are not trimmed.
items_of_untrimmed(val) ==
    SelectSeq(split(val), LAMBDA x : strip(x) # <<>>)

\* [x.strip() for x in val.split(",") if x.strip()]
items_of(val) ==
    LET pieces == split(val)
    IN  SelectSeq([i \in DOMAIN pieces |-> strip(pieces[i])],
                  LAMBDA x : x # <<>>)

\* ",".join([f"'{x}'" for x in items])
quoted_of(items) ==
    join(<<",">>, [i \in DOMAIN items |-> <<"'">> \o items[i] \o <<"'">>])

in_part(c, val) ==
    <<"CAST(">> \o col_sql(c) \o <<" AS VARCHAR) ", "IN (">>
        \o quoted_of(items_of(val)) \o <<")">>

\* The fragment one surviving triple contributes to where_parts.
where_part(f) ==
    CASE f.op \in CompareOps -> compare_part(f.col, f.op, f.val)
      [] f.op = "contains" ->
            <<"CAST(">> \o col_sql(f.col) \o <<" AS VARCHAR) ", "ILIKE ", "'", "%">>
                \o f.val \o <<"%", "'">>
      [] f.op = "starts_with" ->
            <<"CAST(">> \o col_sql(f.col) \o <<" AS VARCHAR) ", "ILIKE ", "'">>
                \o f.val \o <<"%", "'">>
      [] f.op = "ends_with" ->
            <<"CAST(">> \o col_sql(f.col) \o <<" AS VARCHAR) ", "ILIKE ", "'", "%">>
                \o f.val \o <<"'">>
      [] f.op = "in (comma separated)" -> in_part(f.col, f.val)

where_parts(fs) ==
    LET live == SelectSeq(fs, LAMBDA f : ~skipped(f.val))
    IN  [i \in DOMAIN live |-> where_part(live[i])]

build_where(fs) == join(<<" AND ">>, where_parts(fs))

(***************************************************************************)
(* Assembly of sql_preview from the widgets' values.                       *)
(***************************************************************************)
DigitOf(d) ==
    CASE d = 0 -> "0" [] d = 1 -> "1" [] d = 2 -> "2" [] d = 3 -> "3"
      [] d = 4 -> "4" [] d = 5 -> "5" [] d = 6 -> "6" [] d = 7 -> "7"
      [] d = 8 -> "8" [] d = 9 -> "9"

\* str(int(n)) of a non-negative integer: its decimal digits.
RECURSIVE str_int(_)
str_int(n) ==
    IF n < 10 THEN <<DigitOf(n)>>
    ELSE Append(str_int(n \div 10), DigitOf(n % 10))

\* Mutant of where_sql: the keyword is written even before an empty predicate.
where_sql_always(wc) == <<"WHERE ">> \o wc

\* where_sql = f"WHERE {where_clause}" if where_clause else ""
where_sql(wc) == IF wc # <<>> THEN <<"WHERE ">> \o wc ELSE <<>>

select_sql(m) ==
    IF m = "Show rows" THEN <<"*">> ELSE <<"COUNT(*)", " AS ", "row_count">>

\* Mutant of group_sql: only the first chosen column is grouped on.
group_sql_first_only(gb) ==
    IF gb # <<>> THEN <<"GROUP BY ">> \o col_sql(gb[1]) ELSE <<>>

group_sql(gb) ==
    IF gb # <<>>
    THEN <<"GROUP BY ">> \o join(<<", ">>, [i \in DOMAIN gb |-> col_sql(gb[i])])
    ELSE <<>>

assemble(m, wc, gb, lim) ==
    <<"\n", "SELECT ">> \o select_sql(m) \o <<"\n", "FROM data", "\n">>
        \o where_sql(wc) \o <<"\n">> \o group_sql(gb)
        \o <<"\n", "LIMIT ">> \o str_int(lim) \o <<";", "\n">>

(***************************************************************************)
(* The query engine behind con.execute(sql): DuckDB, on the statements     *)
(* the script can write.  A statement is split at its clause keywords, the *)
(* literals of a comparison or of an IN list are read the way SQL reads    *)
(* them (a literal ends at a quote that is not doubled), column names are  *)
(* bound against the registered table, and the rows are filtered, grouped, *)
(* counted and limited.  The result is the multiset of the rows returned:  *)
(* which rows survive LIMIT is modelled, their order on screen is not.     *)
(* Comparisons cast to DOUBLE and ILIKE patterns are not evaluated here.   *)
(***************************************************************************)
ClauseKeywords ==
    {"SELECT ", "FROM data", "WHERE ", "GROUP BY ", "ORDER BY ", "LIMIT ", ";"}

Min(S) == CHOOSE i \in S : \A j \in S : i <= j

IndexOf(q, tok) ==
    LET at == {i \in DOMAIN q : q[i] = tok}
    IN  IF at = {} THEN 0 ELSE Min(at)

HasClause(q, kw) == IndexOf(q, kw) # 0

\* The text of clause kw: from the keyword to the next clause keyword.
Clause(q, kw) ==
    LET i     == IndexOf(q, kw)
        later == {j \in DOMAIN q : j > i /\ q[j] \in ClauseKeywords}
        e     == IF later = {} THEN Len(q) + 1 ELSE Min(later)
    IN  IF i = 0 THEN <<>>
        ELSE SelectSeq(Slice(q, i + 1, e - 1), LAMBDA t : t # "\n")

RECURSIVE SplitOn(_, _)
SplitOn(s, sep) ==
    LET at == {i \in DOMAIN s : s[i] = sep}
    IN  IF at = {} THEN <<s>>
        ELSE <<Slice(s, 1, Min(at) - 1)>>
                 \o SplitOn(Slice(s, Min(at) + 1, Len(s)), sep)

\* The string literals of a comma-separated list, as SQL reads them.  mode is
\* "out" (a literal must start), "in" (inside a literal) or "after" (a literal
\* has ended).  An empty list, an unterminated literal and anything but blanks
\* and commas between literals are syntax errors.
RECURSIVE LexList(_, _, _, _, _)
LexList(s, i, mode, cur, acc) ==
    IF i > Len(s)
    THEN [ok |-> mode = "after", lits |-> acc]
    ELSE CASE mode = "out" ->
                IF s[i] = " " THEN LexList(s, i + 1, "out", cur, acc)
                ELSE IF s[i] = "'" THEN LexList(s, i + 1, "in", <<>>, acc)
                ELSE [ok |-> FALSE, lits |-> acc]
           [] mode = "in" ->
                IF s[i] # "'" THEN LexList(s, i + 1, "in", Append(cur, s[i]), acc)
                ELSE IF i < Len(s) /\ s[i + 1] = "'"
                     THEN LexList(s, i + 2, "in", Append(cur, "'"), acc)
                     ELSE LexList(s, i + 1, "after", <<>>, Append(acc, cur))
           [] mode = "after" ->
                IF s[i] = " " THEN LexList(s, i + 1, "after", cur, acc)
                ELSE IF s[i] = "," THEN LexList(s, i + 1, "out", cur, acc)
                ELSE [ok |-> FALSE, lits |-> acc]

Literals(s) == LexList(s, 1, "out", <<>>, <<>>)

\* One conjunct of the WHERE clause: CAST("col" AS type) op literal(s).
ParseFrag(f) ==
    LET isIn == f[6] = "IN ("
        lx   == IF isIn THEN Literals(Slice(f, 7, Len(f) - 1))
                ELSE Literals(Slice(f, 8, Len(f)))
    IN  [col  |-> f[3],
         type |-> f[5],
         kind |-> IF isIn THEN "in" ELSE f[6],
         ok   |-> lx.ok /\ (isIn \/ Len(lx.lits) = 1),
         lits |-> lx.lits]

Fragments(q) ==
    IF ~HasClause(q, "WHERE ") THEN <<>>
    ELSE LET fs == SplitOn(Clause(q, "WHERE "), " AND ")
         IN  [i \in DOMAIN fs |-> ParseFrag(fs[i])]

\* Whether a row passes one conjunct (the column cast to VARCHAR is the cell's text).
EvalFrag(fr, row) ==
    CASE fr.type = " AS VARCHAR) " /\ fr.kind = "in" -> row[fr.col] \in Range(fr.lits)
      [] fr.type = " AS VARCHAR) " /\ fr.kind = "="  -> row[fr.col] = fr.lits[1]
      [] fr.type = " AS VARCHAR) " /\ fr.kind = "!=" -> row[fr.col] # fr.lits[1]

\* An expression of the select list, of GROUP BY or of ORDER BY.
ParseExpr(e) ==
    CASE e = <<"*">>                                   -> [k |-> "star",  c |-> ""]
      [] e = <<"COUNT(*)">>                            -> [k |-> "count", c |-> ""]
      [] Len(e) = 3 /\ e[1] = "\"" /\ e[3] = "\""      -> [k |-> "col",   c |-> e[2]]
      [] Len(e) = 5 /\ e[1] = "CAST(" /\ e[5] = " AS DATE)"
                                                       -> [k |-> "date",  c |-> e[3]]
      [] Len(e) = 1 /\ e # <<"*">> /\ e # <<"COUNT(*)">> -> [k |-> "col", c |-> e[1]]

ParseItem(it) ==
    IF Len(it) >= 3 /\ it[Len(it) - 1] = " AS "
    THEN [expr |-> ParseExpr(Slice(it, 1, Len(it) - 2)), alias |-> it[Len(it)]]
    ELSE [expr |-> ParseExpr(it), alias |-> ""]

SelectItems(q) ==
    LET its == SplitOn(Clause(q, "SELECT "), ", ")
    IN  [i \in DOMAIN its |-> ParseItem(its[i])]

\* A name in GROUP BY or ORDER BY that is an alias of the select list stands
\* for the aliased expression.
Resolve(x, items) ==
    LET al == {i \in DOMAIN items : x.k = "col" /\ items[i].alias = x.c}
    IN  IF al = {} THEN x ELSE items[Min(al)].expr

GroupExprs(q) ==
    IF ~HasClause(q, "GROUP BY ") THEN <<>>
    ELSE LET gs == SplitOn(Clause(q, "GROUP BY "), ", ")
         IN  [i \in DOMAIN gs |-> Resolve(ParseExpr(gs[i]), SelectItems(q))]

\* ORDER BY expr ASC|DESC (the direction is the clause's last element).
OrderSpec(q) ==
    LET o == Clause(q, "ORDER BY ")
    IN  [expr |-> Resolve(ParseExpr(Slice(o, 1, Len(o) - 1)), SelectItems(q)),
         desc |-> o[Len(o)] = " DESC"]

RECURSIVE int_of(_)
int_of(ds) ==
    IF ds = <<>> THEN 0
    ELSE 10 * int_of(Slice(ds, 1, Len(ds) - 1))
           + (CHOOSE d \in 0..9 : DigitOf(d) = ds[Len(ds)])

LimitOf(q) == int_of(Clause(q, "LIMIT "))

\* Every column the statement names.
ColumnRefs(q) ==
    LET items == SelectItems(q)
        gs    == GroupExprs(q)
        fs    == IF HasClause(q, "WHERE ")
                 THEN SplitOn(Clause(q, "WHERE "), " AND ") ELSE <<>>
        of(x) == IF x.k \in {"col", "date"} THEN {x.c} ELSE {}
    IN  UNION {of(items[i].expr) : i \in DOMAIN items}
          \cup UNION {of(gs[i]) : i \in DOMAIN gs}
          \cup {fs[i][3] : i \in DOMAIN fs}
          \cup (IF HasClause(q, "ORDER BY ") THEN of(OrderSpec(q).expr) ELSE {})

\* The cells of the loaded sheets: two texts and a date.
TextCells == {<<"a">>, <<"b">>}
DateCells == {<<"2024-01-01">>}
CellOrder == <<<<"2024-01-01">>, <<"a">>, <<"b">>>>

CellRank(cell) == Min({i \in DOMAIN CellOrder : CellOrder[i] = cell})

\* The select list with * replaced by the table's columns.
Expanded(q, cs) ==
    LET items == SelectItems(q)
    IN  join(<<>>, [i \in DOMAIN items |->
                      IF items[i].expr.k = "star"
                      THEN [j \in DOMAIN cs |-> [k |-> "col", c |-> cs[j]]]
                      ELSE <<items[i].expr>>])

IsAggregate(q) ==
    \/ HasClause(q, "GROUP BY ")
    \/ \E i \in DOMAIN SelectItems(q) : SelectItems(q)[i].expr.k = "count"

Result(st, e, o) == [status |-> st, err |-> e, out |-> o]

\* The rows a statement may return, or the error the engine raises: the set
\* of the possible outcomes of con.execute(q) on table (cs, rs).
Execute(q, cs, rs) ==
    LET frs     == Fragments(q)
        gs      == GroupExprs(q)
        ex      == Expanded(q, cs)
        agg     == IsAggregate(q)
        ordered == HasClause(q, "ORDER BY ")
        ord     == OrderSpec(q)
        live    == {i \in DOMAIN rs :
                      \A j \in DOMAIN frs : EvalFrag(frs[j], rs[i])}
        dates   == {ex[j].c : j \in {n \in DOMAIN ex : ex[n].k = "date"}}
                     \cup {gs[j].c : j \in {n \in DOMAIN gs : gs[n].k = "date"}}
        keyOf(i)   == [j \in DOMAIN gs |-> rs[i][gs[j].c]]
        members(g) == {i \in live : keyOf(i) = g}
        inKey(x, g) == g[Min({j \in DOMAIN gs : gs[j] = x})]
        groupRow(g) == [j \in DOMAIN ex |->
                          IF ex[j].k = "count" THEN Cardinality(members(g))
                          ELSE inKey(ex[j], g)]
        groupSort(g) == IF ~ordered THEN 0
                        ELSE IF ord.expr.k = "count" THEN Cardinality(members(g))
                        ELSE CellRank(inKey(ord.expr, g))
        plainRow(i) == [j \in DOMAIN ex |-> rs[i][ex[j].c]]
        plainSort(i) == IF ~ordered THEN 0 ELSE CellRank(rs[i][ord.expr.c])
        keys == IF HasClause(q, "GROUP BY ") THEN {keyOf(i) : i \in live}
                ELSE {<<>>}
        cand == IF agg
                THEN {[id |-> g, row |-> groupRow(g), sort |-> groupSort(g)] : g \in keys}
                ELSE {[id |-> <<i>>, row |-> plainRow(i), sort |-> plainSort(i)] : i \in live}
        n == LimitOf(q)
        k == IF n < Cardinality(cand) THEN n ELSE Cardinality(cand)
        before(b, a) == ordered /\ (IF ord.desc THEN b.sort > a.sort ELSE b.sort < a.sort)
        bagOf(S) == [r \in {c.row : c \in S} |-> Cardinality({c \in S : c.row = r})]
    IN  IF \E j \in DOMAIN frs : ~frs[j].ok
        THEN {Result("error", "Parser Error", EmptyBag)}
        ELSE IF ~(ColumnRefs(q) \subseteq Range(cs))
        THEN {Result("error", "Binder Error", EmptyBag)}
        ELSE IF agg /\ \E j \in DOMAIN ex : ex[j].k # "count" /\ ex[j] \notin Range(gs)
        THEN {Result("error", "Binder Error", EmptyBag)}
        ELSE IF \E i \in live, c \in dates : rs[i][c] \notin DateCells
        THEN {Result("error", "Conversion Error", EmptyBag)}
        ELSE {Result("ok", "", bagOf(S)) :
                S \in {T \in SUBSET cand :
                         /\ Cardinality(T) = k
                         /\ \A a \in T, b \in cand \ T : ~before(b, a)}}

(***************************************************************************)
(* run_and_show and what a run of the script puts on the page.             *)
(***************************************************************************)
Element(kd, t, cnt, d, m) == [kind |-> kd, text |-> t, n |-> cnt, data |-> d, msg |-> m]

\* What run_and_show(sql) writes when con.execute(sql) ends as res: the query,
\* the row count, the table and the download button, or only st.error.
run_and_show(sql, res) ==
    IF res.status = "ok"
    THEN << Element("code", sql, 0, EmptyBag, ""),
            Element("success", <<>>, BagCardinality(res.out), EmptyBag, ""),
            Element("dataframe", <<>>, 0, res.out, ""),
            Element("download", <<>>, 0, res.out, "") >>
    ELSE << Element("error", <<>>, 0, EmptyBag, res.err) >>

(***************************************************************************)
(* Sheet-specific presets and the role-to-column mapping.                  *)
(***************************************************************************)
Roles == {"date", "user", "domain", "reason", "smtp", "server"}

default_map(key) ==
    CASE key = "date"    -> "Date Sent"
      [] key = "user"    -> "User"
      [] key = "domain"  -> "To Domain"
      [] key = "reason"  -> "Detail Category"
      [] key = "smtp"    -> "SMTP Code"
      [] key = "server"  -> "Server"
      [] key = "details" -> "Details"

\* Mutant of pick_col: the preferred name is used whether the table has it or not.
pick_col_no_fallback(key, options) == default_map(key)

\* The column the selectbox of pick_col(label, key) starts on:
\* options[options.index(preferred) if preferred in options else 0].
pick_col(key, options) ==
    LET preferred == default_map(key)
        idx == IF preferred \in Range(options)
               THEN IndexOf(options, preferred) - 1 ELSE 0
    IN  options[idx + 1]

\* The four "top" presets of sheet Failure Details: count per value of one
\* column, most frequent first.
top_sql(c, alias, cnt, lim) ==
    <<"\n", "SELECT ">> \o col_sql(c) \o <<" AS ", alias, ", ", "COUNT(*)", " AS ", cnt,
      "\n", "FROM data", "\n", "GROUP BY ">> \o col_sql(c)
      \o <<"\n", "ORDER BY ", cnt, " DESC", "\n", "LIMIT ">> \o lim \o <<";", "\n">>

\* Mutant of by_day_sql: the template carries no LIMIT.
by_day_sql_unlimited(c) ==
    <<"\n", "SELECT ", "CAST(">> \o col_sql(c) \o <<" AS DATE)", " AS ", "sent_day", ", ",
      "COUNT(*)", " AS ", "failures", "\n", "FROM data", "\n", "GROUP BY ", "sent_day",
      "\n", "ORDER BY ", "sent_day", " DESC", ";", "\n">>

by_day_sql(c) ==
    <<"\n", "SELECT ", "CAST(">> \o col_sql(c) \o <<" AS DATE)", " AS ", "sent_day", ", ",
      "COUNT(*)", " AS ", "failures", "\n", "FROM data", "\n", "GROUP BY ", "sent_day",
      "\n", "ORDER BY ", "sent_day", " DESC", "\n", "LIMIT ", "3", "0", ";", "\n">>

domains_sql(by, dir) ==
    <<"\n", "SELECT ", "Domain", ", ", "Recipients", ", ", "Delivered", ", ">>
      \o col_sql("Success Rate %") \o <<" AS ", "success_rate", "\n", "FROM data",
      "\n", "ORDER BY ">> \o by \o <<dir, "\n", "LIMIT ", "2", "5", ";", "\n">>

FailurePresets == {"Top 10 failing domains", "Top failure reasons", "Top SMTP codes",
                   "Top users by failures", "Failures by day"}
DomainPresets == {"Lowest success-rate domains",
                  "Highest recipients among low deliverability"}

\* The buttons the script draws for a sheet.
PresetsOf(sh) ==
    IF sh = "Failure Details" THEN FailurePresets
    ELSE IF sh = "Domains w Lower Deliverability" THEN DomainPresets
    ELSE {}

\* The statement a preset button composes; rc maps each role to its column.
preset_sql(button, rc) ==
    CASE button = "Top 10 failing domains" ->
            top_sql(rc["domain"], "to_domain", "failures", <<"1", "0">>)
      [] button = "Top failure reasons" ->
            top_sql(rc["reason"], "reason", "cnt", <<"1", "5">>)
      [] button = "Top SMTP codes" ->
            top_sql(rc["smtp"], "smtp_code", "cnt", <<"2", "0">>)
      [] button = "Top users by failures" ->
            top_sql(rc["user"], "user", "failures", <<"2", "0">>)
      [] button = "Failures by day" -> by_day_sql(rc["date"])
      [] button = "Lowest success-rate domains" ->
            domains_sql(col_sql("Success Rate %"), " ASC")
      [] button = "Highest recipients among low deliverability" ->
            domains_sql(<<"Recipients">>, " DESC")

\* The role selectboxes exist on sheet Failure Details only.
RolesOf(sh) == IF sh = "Failure Details" THEN Roles ELSE {}

DefaultRoles(sh, cs) == [r \in RolesOf(sh) |-> pick_col(r, cs)]

(***************************************************************************)
(* One run of the script: Streamlit runs it top to bottom after every      *)
(* interaction, with the widgets' current values and at most one button    *)
(* pressed.                                                                *)
(***************************************************************************)
CustomButton == "Run Custom Filters"

\* Column #i, Op #i and Value #i start on the first column, "=" and "".
DefaultFilter(cs) == Triple(cs[1], operators[1], <<>>)

\* "Number of filters" starts on 2.
DefaultNumFilters == 2
DefaultFilters(cs) == [i \in 1..DefaultNumFilters |-> DefaultFilter(cs)]

\* "Limit": at least 1, at most 100000, 1000 to start with.
LimitMin == 1
LimitMax == 100000
DefaultLimit == 1000

Rerun(button) ==
    /\ where_clause' = build_where(filters')
    /\ sql_preview' = assemble(metric', where_clause', group_by', limit')
    /\ pc' = button
    /\ IF button = "none"
       THEN /\ executed' = <<>>
            /\ screen' = << Element("code", sql_preview', 0, EmptyBag, "") >>
       ELSE LET sql == IF button = CustomButton THEN sql_preview'
                       ELSE preset_sql(button, role_col')
            IN  /\ executed' = sql
                /\ \E res \in Execute(sql, cols', rows') :
                     screen' =
                       IF button = CustomButton
                       THEN << Element("code", sql_preview', 0, EmptyBag, "") >>
                                \o run_and_show(sql, res)
                       ELSE run_and_show(sql, res)
                                \o << Element("code", sql_preview', 0, EmptyBag, "") >>

\* The page before the script has run.
NotRun ==
    /\ where_clause = <<>>
    /\ sql_preview = <<>>
    /\ executed = <<>>
    /\ screen = <<>>
    /\ pc = "start"

TableVars == <<sheet, cols, rows, role_col>>
FilterVars == <<filters>>
QueryVars == <<group_by, metric, limit>>

(***************************************************************************)
(* SpecCompare: build_where on one filter triple, over every typed value.  *)
(***************************************************************************)
InitCompare ==
    /\ sheet = "Sheet1"
    /\ cols = <<"A">>
    /\ rows = <<>>
    /\ role_col = DefaultRoles(sheet, cols)
    /\ filters \in {<<Triple("A", operators[o], v)>> : o \in DOMAIN operators, v \in Values}
    /\ group_by = <<>>
    /\ metric = "Show rows"
    /\ limit = DefaultLimit
    /\ NotRun

Compile ==
    /\ pc = "start"
    /\ UNCHANGED <<TableVars, FilterVars, QueryVars>>
    /\ Rerun("none")

SpecCompare == InitCompare /\ [][Compile]_vars

(***************************************************************************)
(* Properties of build_where on one triple (SpecCompare).                  *)
(***************************************************************************)
\* A value that is empty or made of blanks only.
IsBlank(v) == \A i \in DOMAIN v : v[i] = " "

Compiled == pc = "none"

\* The comma-separated items of v, blanks around each removed and empty items
\* dropped, in input order: read off the positions of the commas.
ItemBounds(v) == {0, Len(v) + 1} \cup {i \in DOMAIN v : v[i] = ","}

RECURSIVE ItemsFrom(_, _)
ItemsFrom(v, b) ==
    IF b > Len(v) THEN <<>>
    ELSE LET nxt  == Min({c \in ItemBounds(v) : c > b})
             core == {i \in DOMAIN v : b < i /\ i < nxt /\ v[i] # " "}
             last == CHOOSE i \in core : \A j \in core : j <= i
         IN  (IF core = {} THEN <<>> ELSE <<Slice(v, Min(core), last)>>)
                 \o ItemsFrom(v, nxt)

TrimmedItems(v) == ItemsFrom(v, 0)

\* C2: for a non-blank value and an operator among = != > >= < <=, the fragment
\* casts the column to DOUBLE and compares it with the value unquoted exactly
\* when float(value) succeeds; otherwise it casts the column to VARCHAR and
\* compares it with the value between quotes.  build_where returns in both cases.
C2_NumericIffFloatParses ==
    Compiled =>
      LET f == filters[1]
          w == where_clause
      IN  (f.op \in CompareOps /\ ~IsBlank(f.val)) =>
            /\ Len(w) >= 7
            /\ Slice(w, 1, 4) = <<"CAST(", "\"", f.col, "\"">>
            /\ w[6] = f.op /\ w[7] = " "
            /\ w[5] \in {" AS DOUBLE) ", " AS VARCHAR) "}
            /\ (w[5] = " AS DOUBLE) ") <=> float_ok(f.val)
            /\ w[5] = " AS DOUBLE) " => Slice(w, 8, Len(w)) = f.val
            /\ w[5] = " AS VARCHAR) " =>
                 Slice(w, 8, Len(w)) = <<"'">> \o f.val \o <<"'">>

\* C2 witness: ">= 1e1" has been compiled to a comparison cast to DOUBLE.
C2_Witness ==
    /\ Compiled
    /\ filters[1].op = ">=" /\ filters[1].val = <<"1", "e", "1">>
    /\ where_clause[5] = " AS DOUBLE) "

\* What C3 says of one compiled "in (comma separated)" triple: the engine
\* reads the IN list as exactly the trimmed, non-empty items in input order,
\* and a cell matches exactly when it is one of them.
InListIsTrimmedItems ==
    LET f     == filters[1]
        fr    == ParseFrag(where_clause)
        want  == TrimmedItems(f.val)
        cells == Range(want) \cup Range(fr.lits) \cup StringsUpTo(Chars, 1)
    IN  /\ fr.ok
        /\ fr.kind = "in" /\ fr.type = " AS VARCHAR) " /\ fr.col = f.col
        /\ fr.lits = want
        /\ \A c \in cells : EvalFrag(fr, [A |-> c]) <=> c \in Range(want)

IsInTriple == Compiled /\ filters[1].op = "in (comma separated)"

\* C3 as stated: for every value with at least one non-empty item, the IN
\* list is exactly the trimmed non-empty items and a row matches exactly when
\* its cell is one of them.
C3_Original ==
    (IsInTriple /\ TrimmedItems(filters[1].val) # <<>>) => InListIsTrimmedItems

\* C3 amended: the same, for values that contain no single-quote character.
C3_InListIsTrimmedItems ==
    (/\ IsInTriple
     /\ TrimmedItems(filters[1].val) # <<>>
     /\ "'" \notin Range(filters[1].val)) => InListIsTrimmedItems

\* C3 witness: " a," has been compiled and the engine reads the list as {a}.
C3_Witness ==
    /\ IsInTriple
    /\ filters[1].val = <<" ", "a", ",">>
    /\ ParseFrag(where_clause).lits = << <<"a">> >>

(***************************************************************************)
(* SpecWhere: build_where on every list of filter triples the widgets can  *)
(* hold, up to MaxFilters rows.                                            *)
(***************************************************************************)
MaxFilters == 2

\* The values typed in this specification: the empty one, blanks, a text, a number.
WhereValues == {<<>>, <<" ">>, <<" ", " ">>, <<"a">>, <<"1">>}

WhereTriples ==
    {Triple(c, operators[o], v) : c \in {"A", "B"}, o \in DOMAIN operators,
                                  v \in WhereValues}

InitWhere ==
    /\ sheet = "Sheet1"
    /\ cols = <<"A", "B">>
    /\ rows = <<>>
    /\ role_col = DefaultRoles(sheet, cols)
    /\ filters \in UNION {[1..n -> WhereTriples] : n \in 0..MaxFilters}
    /\ group_by = <<>>
    /\ metric = "Show rows"
    /\ limit = DefaultLimit
    /\ NotRun

SpecWhere == InitWhere /\ [][Compile]_vars

\* The list without its i-th triple.
Without(fs, i) == [j \in 1..(Len(fs) - 1) |-> IF j < i THEN fs[j] ELSE fs[j + 1]]

\* C1: a triple whose value is empty or whitespace-only, at any position and
\* with any column and operator, leaves the predicate what it is without it.
C1_BlankTripleIsOmitted ==
    Compiled =>
      \A i \in DOMAIN filters :
          IsBlank(filters[i].val) => where_clause = build_where(Without(filters, i))

\* C1 witness: a blank "contains" triple on column B stands before a triple
\* that compiles to a comparison.
C1_Witness ==
    /\ Compiled
    /\ Len(filters) = 2
    /\ filters[1] = Triple("B", "contains", <<" ">>)
    /\ filters[2] = Triple("A", "=", <<"a">>)
    /\ where_clause = <<"CAST(", "\"", "A", "\"", " AS VARCHAR) ", "=", " ", "'", "a", "'">>

(***************************************************************************)
(* SpecQuery: the generic filter builder on a loaded table.  The table and  *)
(* the filter rows are drawn at the start; group-by, metric and limit are   *)
(* changed and "Run Custom Filters" is pressed, each with a rerun.          *)
(***************************************************************************)
MaxRows == 2
MaxLimit == 2

\* The limits tried: the smallest ones, the widget's default and its maximum.
Limits == (LimitMin..MaxLimit) \cup {DefaultLimit, LimitMax}

QueryCols == <<"A", "B">>

\* Operators and values whose fragments the engine model evaluates.
QueryOps == {"=", "in (comma separated)"}
QueryValues == {<<>>, <<" ">>, <<"a">>, <<",">>, <<"b", ",", " ", "a">>}

QueryFilters ==
    {<<>>, DefaultFilters(QueryCols)}
      \cup {<<Triple(c, o, v)>> : c \in Range(QueryCols), o \in QueryOps, v \in QueryValues}

Tables(cs, cells) ==
    UNION {[1..n -> [Range(cs) -> cells]] : n \in 0..MaxRows}

\* st.multiselect: the chosen columns, in the order chosen.
GroupLists(cs) ==
    {g \in UNION {[1..n -> Range(cs)] : n \in 0..Len(cs)} :
        \A i, j \in DOMAIN g : i # j => g[i] # g[j]}

\* The page after the script's first run on the widgets' values.
FirstRun ==
    /\ where_clause = build_where(filters)
    /\ sql_preview = assemble(metric, where_clause, group_by, limit)
    /\ executed = <<>>
    /\ screen = << Element("code", sql_preview, 0, EmptyBag, "") >>
    /\ pc = "none"

InitQuery ==
    /\ sheet = "Sheet1"
    /\ cols = QueryCols
    /\ rows \in Tables(cols, TextCells)
    /\ role_col = DefaultRoles(sheet, cols)
    /\ filters \in QueryFilters
    /\ group_by = <<>>
    /\ metric = "Show rows"
    /\ limit = DefaultLimit
    /\ FirstRun

SetGroupBy(g) ==
    /\ g # group_by
    /\ group_by' = g
    /\ UNCHANGED <<TableVars, FilterVars, metric, limit>>
    /\ Rerun("none")

SetMetric(m) ==
    /\ m # metric
    /\ metric' = m
    /\ UNCHANGED <<TableVars, FilterVars, group_by, limit>>
    /\ Rerun("none")

SetLimit(l) ==
    /\ l # limit
    /\ limit' = l
    /\ UNCHANGED <<TableVars, FilterVars, group_by, metric>>
    /\ Rerun("none")

RunCustom ==
    /\ UNCHANGED <<TableVars, FilterVars, QueryVars>>
    /\ Rerun(CustomButton)

NextQuery ==
    \/ \E g \in GroupLists(cols) : SetGroupBy(g)
    \/ \E m \in {"Show rows", "Count rows"} : SetMetric(m)
    \/ \E l \in Limits : SetLimit(l)
    \/ RunCustom

SpecQuery == InitQuery /\ [][NextQuery]_vars

(***************************************************************************)
(* Properties of the assembled query and of its execution (SpecQuery).     *)
(***************************************************************************)
Shown(kd) == {i \in DOMAIN screen : screen[i].kind = kd}

Failed == Shown("error") # {}

\* The result table on the page (the empty multiset when there is none).
Out == IF Shown("dataframe") = {} THEN EmptyBag
       ELSE screen[Min(Shown("dataframe"))].data

\* What a filter triple is meant to select, read from the triple itself: a
\* blank value restricts nothing, = and != compare the cell's text, the
\* membership operator accepts the trimmed items.
Satisfies(row, f) ==
    \/ IsBlank(f.val)
    \/ f.op = "=" /\ row[f.col] = f.val
    \/ f.op = "!=" /\ row[f.col] # f.val
    \/ f.op = "in (comma separated)" /\ row[f.col] \in Range(TrimmedItems(f.val))

Satisfying == {i \in DOMAIN rows : \A j \in DOMAIN filters : Satisfies(rows[i], filters[j])}

\* The distinct combinations of group-by values among the satisfying rows,
\* and the number of satisfying rows in each.
GroupKey(i) == [j \in DOMAIN group_by |-> rows[i][group_by[j]]]
Groups == {GroupKey(i) : i \in Satisfying}
GroupSize(g) == Cardinality({i \in Satisfying : GroupKey(i) = g})

\* One row <<count>> per group.
GroupCounts ==
    [r \in {<<GroupSize(g)>> : g \in Groups} |->
        Cardinality({g \in Groups : GroupSize(g) = r[1]})]

MinOf(a, b) == IF a < b THEN a ELSE b

DegenerateIn(f) ==
    /\ f.op = "in (comma separated)"
    /\ ~IsBlank(f.val)
    /\ TrimmedItems(f.val) = <<>>

\* C4: a membership filter whose value is not blank but whose items are all
\* empty after trimming matches nothing: the query runs without failing and,
\* showing rows, returns none.
C4_DegenerateInMatchesNothing ==
    (/\ pc = CustomButton
     /\ \E j \in DOMAIN filters : DegenerateIn(filters[j]))
      => /\ ~Failed
         /\ (metric = "Show rows" /\ group_by = <<>>) => Out = EmptyBag

AllBlank == \A j \in DOMAIN filters : IsBlank(filters[j].val)

\* C9: with no filter row, or blank values only, build_where returns the empty
\* predicate, the assembled query has no WHERE clause, and a run is evaluated
\* over all rows of the table, whatever the group-by and the limit: showing
\* rows it returns min(limit, all rows) of the table's rows, counting without
\* grouping it returns the table's row count, and counting per group the
\* counts returned are those of the groups of the whole table.
C9_NoFilterNoRestriction ==
    AllBlank =>
      /\ where_clause = <<>>
      /\ ~HasClause(sql_preview, "WHERE ")
      /\ (pc = CustomButton /\ ~Failed) =>
           /\ (metric = "Show rows" /\ group_by = <<>>) =>
                /\ BagCardinality(Out) = MinOf(limit, Len(rows))
                /\ \A r \in DOMAIN Out :
                     Out[r] <= Cardinality({i \in DOMAIN rows :
                                  [j \in DOMAIN cols |-> rows[i][cols[j]]] = r})
           /\ (metric = "Count rows" /\ group_by = <<>>) =>
                Out = SetToBag({<<Len(rows)>>})
           /\ (metric = "Count rows" /\ group_by # <<>>) =>
                /\ BagCardinality(Out) = MinOf(limit, Cardinality(Groups))
                /\ Out \sqsubseteq GroupCounts

\* C9 witness: two blank filter rows; the two rows of the table differ in A,
\* and counted per value of A under a limit of 1 the run returns one count.
C9_Witness ==
    /\ AllBlank /\ Len(filters) = 2
    /\ pc = CustomButton /\ ~Failed
    /\ metric = "Count rows" /\ group_by = <<"A">>
    /\ Len(rows) = 2 /\ rows[1]["A"] # rows[2]["A"]
    /\ Out = SetToBag({<<1>>})
    /\ limit = 1

CountPerGroupRun ==
    /\ pc = CustomButton /\ ~Failed
    /\ metric = "Count rows" /\ group_by # <<>>

\* C10 as stated: for every limit the count query with a group-by returns one
\* row per distinct combination of group-by values among the rows satisfying
\* the predicate, each with the exact number of rows of its group.
C10_Original == CountPerGroupRun => Out = GroupCounts

\* C10 amended: a count query with a group-by that the engine executes
\* returns min(limit, number of groups) rows, each carrying the exact row
\* count of a different group; one row per group when the limit is at least
\* the number of groups.
C10_CountPerGroupUpToLimit ==
    CountPerGroupRun =>
      /\ BagCardinality(Out) = MinOf(limit, Cardinality(Groups))
      /\ Out \sqsubseteq GroupCounts
      /\ limit >= Cardinality(Groups) => Out = GroupCounts

\* C10 witness: a filter on B keeps both rows, which differ in A; grouped by
\* A under a limit of 2 the run returns the two counts.
C10_Witness ==
    /\ CountPerGroupRun
    /\ filters = <<Triple("B", "in (comma separated)", <<"b", ",", " ", "a">>)>>
    /\ group_by = <<"A">> /\ limit = 2
    /\ Cardinality(Groups) = 2
    /\ Out = (<<1>> :> 2)

(***************************************************************************)
(* SpecPreset: a sheet is loaded, the role selectboxes are changed and the  *)
(* preset buttons are pressed.                                              *)
(***************************************************************************)
MaxCols == 2
MaxRepicks == 1

Sheets == {"Failure Details", "Domains w Lower Deliverability", "Failure Reasons",
           "Sheet1"}

ColNames == {"To Domain", "Date Sent", "Notes"}

\* The header the presets of "Domains w Lower Deliverability" are written for.
DomainsSchema == <<"Domain", "Recipients", "Delivered", "Success Rate %">>

\* Headers: up to MaxCols distinct names, and the one above.
Schemas ==
    {cs \in UNION {[1..n -> ColNames] : n \in 1..MaxCols} :
        \A i, j \in DOMAIN cs : i # j => cs[i] # cs[j]}
      \cup {DomainsSchema}

\* Tables whose rows hold one text in every column: no row, a row of dates,
\* a row of text, and both.
PresetTables(cs) ==
    LET dr == [c \in Range(cs) |-> <<"2024-01-01">>]
        tr == [c \in Range(cs) |-> <<"a">>]
    IN  {<<>>, <<dr>>, <<tr>>, <<tr, dr>>}

InitPreset ==
    /\ sheet \in Sheets
    /\ cols \in Schemas
    /\ rows \in PresetTables(cols)
    /\ role_col = DefaultRoles(sheet, cols)
    /\ filters = DefaultFilters(cols)
    /\ group_by = <<>>
    /\ metric = "Show rows"
    /\ limit = DefaultLimit
    /\ FirstRun

\* The roles whose selectbox the user has moved off its starting column.
Repicked(rc) == {r \in DOMAIN rc : rc[r] # pick_col(r, cols)}

\* The user picks column c in the selectbox of role r.
PickRole(r, c) ==
    /\ role_col[r] # c
    /\ role_col' = [role_col EXCEPT ![r] = c]
    /\ Cardinality(Repicked(role_col')) <= MaxRepicks
    /\ UNCHANGED <<sheet, cols, rows, FilterVars, QueryVars>>
    /\ Rerun("none")

PressPreset(b) ==
    /\ UNCHANGED <<TableVars, FilterVars, QueryVars>>
    /\ Rerun(b)

NextPreset ==
    \/ \E r \in RolesOf(sheet), c \in Range(cols) : PickRole(r, c)
    \/ \E b \in PresetsOf(sheet) : PressPreset(b)

SpecPreset == InitPreset /\ [][NextPreset]_vars

PresetRun == pc \in FailurePresets \cup DomainPresets

\* C5: a failure of the engine is caught in run_and_show and shown as an
\* error together with the text of the query that failed.
C5_ErrorShownWithQuery ==
    Failed => \E i \in Shown("code") : screen[i].text = executed

\* C6: every column a query handed to the engine names is a column of the
\* loaded table.
C6_ReferencesInSchema ==
    executed # <<>> => ColumnRefs(executed) \subseteq Range(cols)

\* C7: every role starts on its preferred column when the table has it and
\* on the table's first column otherwise, the column a role is mapped to is
\* always a column of the table, and a preset of the sheet composes its
\* query from the mapped columns.
C7_RoleResolvesToColumn ==
    /\ \A r \in RolesOf(sheet) :
         /\ pick_col(r, cols) = IF \E i \in DOMAIN cols : cols[i] = default_map(r)
                                THEN default_map(r) ELSE cols[1]
         /\ role_col[r] \in Range(cols)
         /\ Repicked(role_col) = {} => role_col[r] \in {default_map(r), cols[1]}
    /\ pc \in FailurePresets =>
         /\ executed = preset_sql(pc, role_col)
         /\ ColumnRefs(executed) \subseteq Range(cols)

\* C7 witness: the table has no "To Domain" column, the domain role is on the
\* first column and "Top 10 failing domains" has run on it.
C7_Witness ==
    /\ sheet = "Failure Details"
    /\ cols = <<"Notes", "Date Sent">>
    /\ Repicked(role_col) = {}
    /\ role_col["domain"] = "Notes" /\ role_col["date"] = "Date Sent"
    /\ pc = "Top 10 failing domains" /\ ~Failed
    /\ ColumnRefs(executed) = {"Notes"}

\* C8 as stated: the limit of every preset is one of 10, 15, 20 and 30.
C8_Original ==
    PresetRun => /\ HasClause(executed, "LIMIT ")
                 /\ LimitOf(executed) \in {10, 15, 20, 30}

\* C8 amended: every preset carries a fixed limit, one of 10, 15, 20, 25, 30.
C8_PresetLimitFixed ==
    PresetRun => /\ HasClause(executed, "LIMIT ")
                 /\ LimitOf(executed) \in {10, 15, 20, 25, 30}

\* C8 witness: "Lowest success-rate domains" has run, with its limit of 25.
C8_Witness ==
    /\ pc = "Lowest success-rate domains"
    /\ cols = DomainsSchema /\ ~Failed
    /\ LimitOf(executed) = 25

====
